---- MODULE Spec2Model ----
\* The request/response pipeline of kadal.client.Client: query dispatch,
\* paged-result handling and error classification, as a state machine over
\* the calls in flight on one Client.
EXTENDS Integers, Sequences, FiniteSets, TLC

\* ---------------------------------------------------------------------
\* Bounds of the model
\* ---------------------------------------------------------------------
NumCalls == 2
MaxErrors == 2
MaxMedia == 2
MaxId == 2
MaxPage == 2

Procs == 1..NumCalls

URL == "https://graphql.anilist.co"

MEDIA_SEARCH == "MEDIA_SEARCH"
MEDIA_BY_ID == "MEDIA_BY_ID"
MEDIA_PAGED == "MEDIA_PAGED"
USER_SEARCH == "USER_SEARCH"
USER_BY_ID == "USER_BY_ID"

\* ---------------------------------------------------------------------
\* Python / JSON values.  Values that may be None where another type is
\* expected are tagged records, so that None, False, 0 and "" stay distinct.
\* ---------------------------------------------------------------------
None == [t |-> "null"]
PyStr(s) == [t |-> "str", s |-> s]
PyInt(n) == [t |-> "int", n |-> n]
PyBool(b) == [t |-> "bool", b |-> b]
PyList(s) == [t |-> "list", v |-> s]
EmptyDict == [k \in {} |-> None]

\* dict.get(key): the value, or None when the key is absent
DictGet(d, key) == IF key \in DOMAIN d THEN d[key] ELSE None

\* Python truthiness of a value that is None or a list
Truthy(v) == v.t = "list" /\ v.v # <<>>

SeqsUpTo(S, n) == UNION {[1..k -> S] : k \in 0..n}

\* ---------------------------------------------------------------------
\* Outcomes of a coroutine: a raised exception or a returned value
\* ---------------------------------------------------------------------
NoOutcome == [kind |-> "none"]
Return(v) == [kind |-> "return", value |-> v]
KadalError(message, status) ==
    [kind |-> "raise", exc |-> "KadalError", message |-> message, status |-> status]
MediaNotFound(message, status) ==
    [kind |-> "raise", exc |-> "MediaNotFound", message |-> message, status |-> status]
KeyError(key) == [kind |-> "raise", exc |-> "KeyError", key |-> key]
IndexError == [kind |-> "raise", exc |-> "IndexError"]

\* MediaNotFound is a subclass of KadalError
IsMediaNotFound(o) == o.kind = "raise" /\ o.exc = "MediaNotFound"
IsKadalError(o) == o.kind = "raise" /\ o.exc \in {"KadalError", "MediaNotFound"}

\* Domain objects, opaque to the client: the constructor's arguments
Media(data, page) == [cls |-> "Media", data |-> data, page |-> page]
User(data) == [cls |-> "User", data |-> data]

\* ---------------------------------------------------------------------
\* Error classification and dispatch, as functions of the decoded body
\* ---------------------------------------------------------------------

\* handle_error without the 404 branch
handle_error_generic(error) ==
    IF "message" \notin DOMAIN error THEN KeyError("message")
    ELSE IF "status" \notin DOMAIN error THEN KeyError("status")
    ELSE KadalError(error.message, error.status)

\* Client.handle_error: subscripting a missing key raises KeyError before
\* any classification is made.
handle_error(error) ==
    IF "message" \notin DOMAIN error THEN KeyError("message")
    ELSE IF "status" \notin DOMAIN error THEN KeyError("status")
    ELSE IF error.status = 404 THEN MediaNotFound(error.message, error.status)
    ELSE KadalError(error.message, error.status)

\* The JSON body Client._request posts
_request_json(query, variables) == [query |-> query, variables |-> variables]

\* _request classifying the last entry of the errors array
_request_last(data) ==
    IF Truthy(DictGet(data, "errors"))
    THEN handle_error(data.errors.v[Len(data.errors.v)])
    ELSE Return(data)

\* Client._request after the body has been decoded into `data`
_request(data) ==
    IF Truthy(DictGet(data, "errors"))
    THEN handle_error(data.errors.v[1])
    ELSE Return(data)

\* The variables Client._paged_request passes on to _request
_paged_request_variables(page, perPage, variables) ==
    [page |-> PyInt(page), perPage |-> PyInt(perPage)] @@ variables

\* _paged_request without the check for an empty list
_paged_request_unchecked(data) ==
    LET r == _request(data) IN
    IF r.kind = "raise" THEN r ELSE Return(r.value.data.Page.media)

\* Client._paged_request after the body has been decoded into `data`
_paged_request(data) ==
    LET r == _request(data) IN
    IF r.kind = "raise" THEN r
    ELSE LET lst == r.value.data.Page.media IN
         IF ~Truthy(lst) THEN MediaNotFound("Not Found.", 404)
         ELSE Return(lst)

\* lst[0] on a Python list
First(lst) == IF lst.v = <<>> THEN IndexError ELSE Return(lst.v[1])

\* ---------------------------------------------------------------------
\* The public methods: the variables each builds, and what each returns
\* once the body has been decoded into `data`
\* ---------------------------------------------------------------------
get_anime_variables(id) == [id |-> PyInt(id), type |-> PyStr("ANIME")]
get_manga_variables(id) == [id |-> PyInt(id), type |-> PyStr("MANGA")]
get_user_variables(id) == [id |-> PyInt(id)]
search_user_variables(query) == [search |-> PyStr(query)]

search_anime_variables(query, allow_adult) ==
    LET variables == [search |-> PyStr(query), type |-> PyStr("ANIME")] IN
    IF ~allow_adult THEN ("isAdult" :> PyBool(FALSE)) @@ variables ELSE variables

\* search_manga passing allow_adult on as isAdult
search_manga_variables_flag(query, include_novels, allow_adult) ==
    LET exclude == IF ~include_novels THEN PyStr("NOVEL") ELSE None IN
    [search |-> PyStr(query), type |-> PyStr("MANGA"), exclude |-> exclude,
     isAdult |-> PyBool(allow_adult)]

search_manga_variables(query, include_novels, allow_adult) ==
    LET exclude == IF ~include_novels THEN PyStr("NOVEL") ELSE None
        variables == [search |-> PyStr(query), type |-> PyStr("MANGA"),
                      exclude |-> exclude]
    IN  IF ~allow_adult THEN ("isAdult" :> PyBool(FALSE)) @@ variables ELSE variables

\* get_anime unwrapping data.Media before it builds the Media
get_anime_return_unwrapped(data) ==
    LET r == _request(data) IN
    IF r.kind = "raise" THEN r ELSE Return(Media(r.value.data.Media, FALSE))

get_anime_return(data) ==
    LET r == _request(data) IN
    IF r.kind = "raise" THEN r ELSE Return(Media(r.value, FALSE))

get_manga_return(data) ==
    LET r == _request(data) IN
    IF r.kind = "raise" THEN r ELSE Return(Media(r.value, FALSE))

get_user_return(data) ==
    LET r == _request(data) IN
    IF r.kind = "raise" THEN r ELSE Return(User(r.value))

search_user_return(data) ==
    LET r == _request(data) IN
    IF r.kind = "raise" THEN r ELSE Return(User(r.value))

\* custom_paged_search keeping only the first entry
custom_paged_search_return_first(data) ==
    LET r == _paged_request(data) IN
    IF r.kind = "raise" THEN r
    ELSE Return(PyList(<<Media(r.value.v[1], TRUE)>>))

custom_paged_search_return(data) ==
    LET r == _paged_request(data) IN
    IF r.kind = "raise" THEN r
    ELSE Return(PyList([i \in 1..Len(r.value.v) |-> Media(r.value.v[i], TRUE)]))

\* search_anime building every Media with the default page flag
search_anime_return_untagged(data, popularity) ==
    IF popularity
    THEN LET r == _paged_request(data) IN
         IF r.kind = "raise" THEN r
         ELSE LET d == First(r.value) IN
              IF d.kind = "raise" THEN d ELSE Return(Media(d.value, FALSE))
    ELSE LET r == _request(data) IN
         IF r.kind = "raise" THEN r ELSE Return(Media(r.value, FALSE))

search_anime_return(data, popularity) ==
    IF popularity
    THEN LET r == _paged_request(data) IN
         IF r.kind = "raise" THEN r
         ELSE LET d == First(r.value) IN
              IF d.kind = "raise" THEN d ELSE Return(Media(d.value, popularity))
    ELSE LET r == _request(data) IN
         IF r.kind = "raise" THEN r ELSE Return(Media(r.value, popularity))

search_manga_return(data, popularity) ==
    IF popularity
    THEN LET r == _paged_request(data) IN
         IF r.kind = "raise" THEN r
         ELSE LET d == First(r.value) IN
              IF d.kind = "raise" THEN d ELSE Return(Media(d.value, popularity))
    ELSE LET r == _request(data) IN
         IF r.kind = "raise" THEN r ELSE Return(Media(r.value, popularity))

\* ---------------------------------------------------------------------
\* Inputs: arguments of the calls and bodies the service may answer with
\* ---------------------------------------------------------------------
Ids == 1..MaxId
Pages == 1..MaxPage
PerPages == {2, 50}
SearchQueries == {"naruto"}
ExtraVariables == {EmptyDict, [type |-> PyStr("ANIME"), sort |-> PyStr("SCORE_DESC")]}

Messages == {"Not Found.", "Too Many Requests."}
Statuses == {404, 429}
ErrorEntries == [message : Messages, status : Statuses] \cup [message : Messages]
ErrorsValues == {None} \cup {PyList(s) : s \in SeqsUpTo(ErrorEntries, MaxErrors)}

MediaObjects == {[id |-> i] : i \in Ids}

DataValues(query) ==
    CASE query = MEDIA_PAGED ->
           {[Page |-> [media |-> PyList(s)]] : s \in SeqsUpTo(MediaObjects, MaxMedia)}
      [] query \in {MEDIA_BY_ID, MEDIA_SEARCH} ->
           {[Media |-> m] : m \in MediaObjects \cup {None}}
      [] OTHER ->
           {[User |-> m] : m \in MediaObjects \cup {None}}

\* The data sent along with a non-empty errors array
PartialData(query) ==
    CASE query = MEDIA_PAGED -> {[Page |-> [media |-> PyList(<<[id |-> 1]>>)]]}
      [] query \in {MEDIA_BY_ID, MEDIA_SEARCH} -> {[Media |-> [id |-> 1]], [Media |-> None]}
      [] OTHER -> {[User |-> [id |-> 1]], [User |-> None]}

\* Decoded bodies: {data}, {errors}, or both; a body without a non-empty
\* errors array carries the data of the query that was sent.
Responses(query) ==
    {[data |-> d] : d \in DataValues(query)}
    \cup {[errors |-> e, data |-> d] :
            e \in {x \in ErrorsValues : ~Truthy(x)}, d \in DataValues(query)}
    \cup {[errors |-> e, data |-> d] :
            e \in {x \in ErrorsValues : Truthy(x)}, d \in PartialData(query)}
    \cup {[errors |-> e] : e \in {x \in ErrorsValues : Truthy(x)}}

\* A small set of bodies for runs with several calls in flight
FewResponses(query) ==
    {[errors |-> PyList(<<[message |-> "Not Found.", status |-> 404]>>)]}
    \cup {[data |-> d] : d \in PartialData(query)}
    \cup (IF query = MEDIA_PAGED THEN {[data |-> [Page |-> [media |-> PyList(<<>>)]]]} ELSE {})

\* ---------------------------------------------------------------------
\* State
\* ---------------------------------------------------------------------
VARIABLES
    _lib,       \* Client._lib
    session,    \* Client.session
    pc,         \* per call: Idle, Built, Sent, Decoded, Errored, Succeeded
    method,     \* per call: the public method invoked
    args,       \* per call: its arguments
    body,       \* per call: the JSON body it built
    posts,      \* per call: the requests it handed to session.post
    awaits,     \* per call: suspension points passed
    data,       \* per call: the decoded response body
    outcome     \* per call: what the call raised or returned

vars == <<_lib, session, pc, method, args, body, posts, awaits, data, outcome>>

Session(name) == [t |-> "session", name |-> name]
SessionArgs == {None, Session("caller")}
Libs == {"asyncio", "multio"}

\* Client._make_session
_make_session(lib) ==
    IF lib = "asyncio" THEN Session("aiohttp.ClientSession") ELSE Session("asks.Session")

\* Client.__init__ with a supported lib
ClientInit(sessionArg, lib) ==
    /\ _lib = lib
    /\ session = IF sessionArg # None THEN sessionArg ELSE _make_session(lib)

Init ==
    /\ \E sessionArg \in SessionArgs, lib \in Libs : ClientInit(sessionArg, lib)
    /\ pc = [c \in Procs |-> "Idle"]
    /\ method = [c \in Procs |-> ""]
    /\ args = [c \in Procs |-> EmptyDict]
    /\ body = [c \in Procs |-> EmptyDict]
    /\ posts = [c \in Procs |-> <<>>]
    /\ awaits = [c \in Procs |-> 0]
    /\ data = [c \in Procs |-> EmptyDict]
    /\ outcome = [c \in Procs |-> NoOutcome]

\* A public method has built its variables and the JSON body of its request
Build(c, name, a, query, variables) ==
    /\ pc' = [pc EXCEPT ![c] = "Built"]
    /\ method' = [method EXCEPT ![c] = name]
    /\ args' = [args EXCEPT ![c] = a]
    /\ body' = [body EXCEPT ![c] = _request_json(query, variables)]
    /\ UNCHANGED <<_lib, session, posts, awaits, data, outcome>>

get_anime(c, ids) ==
    \E id \in ids :
        /\ pc[c] = "Idle"
        /\ Build(c, "get_anime", [id |-> id], MEDIA_BY_ID, get_anime_variables(id))

get_manga(c, ids) ==
    \E id \in ids :
        /\ pc[c] = "Idle"
        /\ Build(c, "get_manga", [id |-> id], MEDIA_BY_ID, get_manga_variables(id))

get_user(c, ids) ==
    \E id \in ids :
        /\ pc[c] = "Idle"
        /\ Build(c, "get_user", [id |-> id], USER_BY_ID, get_user_variables(id))

search_user(c, queries) ==
    \E query \in queries :
        /\ pc[c] = "Idle"
        /\ Build(c, "search_user", [query |-> query], USER_SEARCH,
                 search_user_variables(query))

custom_paged_search(c, pages, perPages, extras) ==
    \E page \in pages, perPage \in perPages, variables \in extras :
        /\ pc[c] = "Idle"
        /\ Build(c, "custom_paged_search",
                 [page |-> page, perPage |-> perPage, variables |-> variables],
                 MEDIA_PAGED, _paged_request_variables(page, perPage, variables))

search_anime(c, queries, flags) ==
    \E query \in queries, popularity \in flags, allow_adult \in flags :
        LET variables == search_anime_variables(query, allow_adult) IN
        /\ pc[c] = "Idle"
        /\ Build(c, "search_anime",
                 [query |-> query, popularity |-> popularity,
                  allow_adult |-> allow_adult],
                 IF popularity THEN MEDIA_PAGED ELSE MEDIA_SEARCH,
                 IF popularity THEN _paged_request_variables(1, 50, variables)
                 ELSE variables)

search_manga(c, queries, flags) ==
    \E query \in queries, popularity \in flags, include_novels \in flags,
       allow_adult \in flags :
        LET variables == search_manga_variables(query, include_novels, allow_adult) IN
        /\ pc[c] = "Idle"
        /\ Build(c, "search_manga",
                 [query |-> query, popularity |-> popularity,
                  include_novels |-> include_novels, allow_adult |-> allow_adult],
                 IF popularity THEN MEDIA_PAGED ELSE MEDIA_SEARCH,
                 IF popularity THEN _paged_request_variables(1, 50, variables)
                 ELSE variables)

\* _request: session.post(URL, json=...) is called and awaited
Post(c) ==
    /\ pc[c] = "Built"
    /\ pc' = [pc EXCEPT ![c] = "Sent"]
    /\ posts' = [posts EXCEPT ![c] =
                   Append(@, [verb |-> "POST", url |-> URL, json |-> body[c],
                              session |-> session])]
    /\ awaits' = [awaits EXCEPT ![c] = @ + 1]
    /\ UNCHANGED <<_lib, session, method, args, body, data, outcome>>

\* The decoded body kept in one place shared by every call
Json_shared(c, few) ==
    /\ pc[c] = "Sent"
    /\ \E resp \in IF few THEN FewResponses(body[c].query)
                            ELSE Responses(body[c].query) :
           data' = [d \in Procs |-> resp]
    /\ pc' = [pc EXCEPT ![c] = "Decoded"]
    /\ awaits' = [awaits EXCEPT ![c] = IF _lib = "asyncio" THEN @ + 1 ELSE @]
    /\ UNCHANGED <<_lib, session, method, args, body, posts, outcome>>

\* _request: the response arrives and its body is decoded; in asyncio mode
\* r.json() is awaited, in multio mode it is a plain call
Json(c, few) ==
    /\ pc[c] = "Sent"
    /\ \E resp \in IF few THEN FewResponses(body[c].query)
                            ELSE Responses(body[c].query) :
           data' = [data EXCEPT ![c] = resp]
    /\ pc' = [pc EXCEPT ![c] = "Decoded"]
    /\ awaits' = [awaits EXCEPT ![c] = IF _lib = "asyncio" THEN @ + 1 ELSE @]
    /\ UNCHANGED <<_lib, session, method, args, body, posts, outcome>>

\* What method `name`, called with arguments `a`, raises or returns once
\* its response body has been decoded into `d`
MethodResult(name, a, d) ==
    CASE name = "get_anime" -> get_anime_return(d)
      [] name = "get_manga" -> get_manga_return(d)
      [] name = "get_user" -> get_user_return(d)
      [] name = "search_user" -> search_user_return(d)
      [] name = "custom_paged_search" -> custom_paged_search_return(d)
      [] name = "search_anime" -> search_anime_return(d, a.popularity)
      [] name = "search_manga" -> search_manga_return(d, a.popularity)

Result(c) == MethodResult(method[c], args[c], data[c])

\* A call that sends its request once more after a failure
Complete_retry(c) ==
    /\ pc[c] = "Decoded"
    /\ IF Result(c).kind = "raise" /\ Len(posts[c]) < 2
       THEN /\ pc' = [pc EXCEPT ![c] = "Built"]
            /\ UNCHANGED outcome
       ELSE /\ outcome' = [outcome EXCEPT ![c] = Result(c)]
            /\ pc' = [pc EXCEPT ![c] =
                        IF Result(c).kind = "raise" THEN "Errored" ELSE "Succeeded"]
    /\ UNCHANGED <<_lib, session, method, args, body, posts, awaits, data>>

\* The rest of the coroutine runs without suspension: errors are classified,
\* the paged list is checked, the domain object is built
Complete(c) ==
    /\ pc[c] = "Decoded"
    /\ outcome' = [outcome EXCEPT ![c] = Result(c)]
    /\ pc' = [pc EXCEPT ![c] = IF Result(c).kind = "raise" THEN "Errored" ELSE "Succeeded"]
    /\ UNCHANGED <<_lib, session, method, args, body, posts, awaits, data>>

\* One call, every argument and every body
Next ==
    \E c \in {1} :
        \/ get_anime(c, Ids)
        \/ get_manga(c, Ids)
        \/ get_user(c, Ids)
        \/ search_user(c, SearchQueries)
        \/ custom_paged_search(c, Pages, PerPages, ExtraVariables)
        \/ search_anime(c, SearchQueries, BOOLEAN)
        \/ search_manga(c, SearchQueries, BOOLEAN)
        \/ Post(c)
        \/ Json(c, FALSE)
        \/ Complete(c)

Spec == Init /\ [][Next]_vars

\* Several calls sharing the Client, interleaved at their suspension points
NextConc ==
    \E c \in Procs :
        \/ get_anime(c, {1})
        \/ get_manga(c, {1})
        \/ get_user(c, {1})
        \/ search_user(c, SearchQueries)
        \/ custom_paged_search(c, {1}, {50}, {EmptyDict})
        \/ search_anime(c, SearchQueries, {TRUE})
        \/ search_manga(c, SearchQueries, {FALSE})
        \/ Post(c)
        \/ Json(c, TRUE)
        \/ Complete(c)

SpecConc == Init /\ [][NextConc]_vars

\* ---------------------------------------------------------------------
\* Vocabulary of the properties
\* ---------------------------------------------------------------------
Done(c) == pc[c] \in {"Errored", "Succeeded"}

\* The entries of the errors array of a decoded body; none when the key is
\* absent, null or an empty array
ErrorsOf(d) ==
    IF "errors" \in DOMAIN d /\ d.errors # None THEN d.errors.v ELSE <<>>

HasErrors(d) == ErrorsOf(d) # <<>>

SingleItemMethods == {"get_anime", "get_manga", "get_user"}
SearchMethods == {"search_anime", "search_manga"}

\* data.<Key> of a single-item body
KeyOf(name) == IF name = "get_user" THEN "User" ELSE "Media"

IsPagedCall(c) ==
    \/ method[c] = "custom_paged_search"
    \/ method[c] \in SearchMethods /\ args[c].popularity

PageMedia(c) == data[c].data.Page.media.v

\* ---------------------------------------------------------------------
\* Properties
\* ---------------------------------------------------------------------

\* C1: a call whose body has a non-empty errors array with a first entry
\* {message, status} fails with MediaNotFound exactly when status is 404 and
\* with a KadalError that is not MediaNotFound otherwise; the exception
\* carries that entry's message and status.
C1_ErrorClassification ==
    \A c \in Procs :
        (/\ Done(c)
         /\ HasErrors(data[c])
         /\ DOMAIN ErrorsOf(data[c])[1] = {"message", "status"})
        => LET e == ErrorsOf(data[c])[1]
               o == outcome[c]
           IN  /\ o.kind = "raise"
               /\ o.exc \in {"KadalError", "MediaNotFound"}
               /\ (o.exc = "MediaNotFound") <=> (e.status = 404)
               /\ o.message = e.message
               /\ o.status = e.status

C1_Witness ==
    \E c \in Procs :
        /\ Done(c)
        /\ method[c] = "custom_paged_search"
        /\ HasErrors(data[c])
        /\ ErrorsOf(data[c])[1] = [message |-> "Too Many Requests.", status |-> 429]
        /\ outcome[c] = KadalError("Too Many Requests.", 429)

C3_MissingStatusIsGeneric ==
    \A c \in Procs :
        (/\ Done(c)
         /\ HasErrors(data[c])
         /\ DOMAIN ErrorsOf(data[c])[1] = {"message"})
        => /\ outcome[c].kind = "raise"
           /\ outcome[c].exc = "KadalError"

\* C4: a paged call whose body has no errors and an empty data.Page.media
\* fails with MediaNotFound("Not Found.", 404), whatever its arguments, and
\* returns nothing.
C4_EmptyPageNotFound ==
    \A c \in Procs :
        (/\ Done(c)
         /\ IsPagedCall(c)
         /\ ~HasErrors(data[c])
         /\ PageMedia(c) = <<>>)
        => /\ pc[c] = "Errored"
           /\ outcome[c] = [kind |-> "raise", exc |-> "MediaNotFound",
                            message |-> "Not Found.", status |-> 404]

C4_Witness ==
    \E c \in Procs :
        /\ Done(c)
        /\ method[c] = "search_manga"
        /\ args[c].popularity
        /\ "errors" \in DOMAIN data[c]
        /\ data[c].errors = PyList(<<>>)
        /\ PageMedia(c) = <<>>
        /\ IsMediaNotFound(outcome[c])

\* C5: custom_paged_search, on a body without errors whose data.Page.media
\* has n >= 1 entries, returns n Media objects, the i-th built from the i-th
\* entry, each with the page flag true.
C5_PagedSequence ==
    \A c \in Procs :
        (/\ Done(c)
         /\ method[c] = "custom_paged_search"
         /\ ~HasErrors(data[c])
         /\ Len(PageMedia(c)) >= 1)
        => /\ outcome[c].kind = "return"
           /\ outcome[c].value.t = "list"
           /\ Len(outcome[c].value.v) = Len(PageMedia(c))
           /\ \A i \in 1..Len(PageMedia(c)) :
                  outcome[c].value.v[i] =
                      [cls |-> "Media", data |-> PageMedia(c)[i], page |-> TRUE]

C5_Witness ==
    \E c \in Procs :
        /\ pc[c] = "Succeeded"
        /\ method[c] = "custom_paged_search"
        /\ PageMedia(c) = <<[id |-> 2], [id |-> 1]>>
        /\ outcome[c].value.v = <<Media([id |-> 2], TRUE), Media([id |-> 1], TRUE)>>

\* C6: search_anime and search_manga tag the Media by the path taken: with
\* popularity the paged query is sent and the Media is built from the first
\* entry of data.Page.media with the page flag true; without it the
\* single-media search query is sent and the Media is built from the
\* single-item body with the page flag false.
C6_ShapeMatchesPath ==
    \A c \in Procs :
        (method[c] \in SearchMethods /\ pc[c] # "Idle")
        => /\ body[c].query = (IF args[c].popularity THEN MEDIA_PAGED ELSE MEDIA_SEARCH)
           /\ \A i \in 1..Len(posts[c]) :
                  posts[c][i].json.query =
                      (IF args[c].popularity THEN MEDIA_PAGED ELSE MEDIA_SEARCH)
           /\ pc[c] = "Succeeded" =>
                  outcome[c].value =
                      (IF args[c].popularity
                       THEN [cls |-> "Media", data |-> PageMedia(c)[1], page |-> TRUE]
                       ELSE [cls |-> "Media", data |-> data[c], page |-> FALSE])

C6_Witness ==
    \E c \in Procs :
        /\ pc[c] = "Succeeded"
        /\ method[c] = "search_anime"
        /\ args[c].popularity
        /\ posts[c][1].json.query = MEDIA_PAGED
        /\ PageMedia(c) = <<[id |-> 2], [id |-> 1]>>
        /\ outcome[c].value = Media([id |-> 2], TRUE)

\* C7: on both paths of search_anime and search_manga the variables of the
\* outgoing request hold isAdult = false when allow_adult is false, and
\* hold no isAdult key when allow_adult is true.
C7_AdultFilter ==
    \A c \in Procs :
        (method[c] \in SearchMethods /\ pc[c] # "Idle")
        => \A v \in {body[c].variables}
                    \cup {posts[c][i].json.variables : i \in 1..Len(posts[c])} :
               IF args[c].allow_adult
               THEN "isAdult" \notin DOMAIN v
               ELSE "isAdult" \in DOMAIN v /\ v.isAdult = PyBool(FALSE)

C7_Witness ==
    \E c \in Procs :
        /\ method[c] = "search_manga"
        /\ args[c].allow_adult
        /\ args[c].popularity
        /\ Len(posts[c]) = 1
        /\ DOMAIN posts[c][1].json.variables =
               {"page", "perPage", "search", "type", "exclude"}

C9_StateOrder ==
    \A c \in Procs :
        /\ pc[c] \in {"Idle", "Built", "Sent", "Decoded", "Errored", "Succeeded"}
        /\ Len(posts[c]) = (IF pc[c] \in {"Idle", "Built"} THEN 0 ELSE 1)
        /\ \A i \in 1..Len(posts[c]) :
               /\ posts[c][i].verb = "POST"
               /\ posts[c][i].url = URL
               /\ posts[c][i].json = body[c]
        /\ pc[c] = "Errored" <=> outcome[c].kind = "raise"
        /\ pc[c] = "Succeeded" <=> outcome[c].kind = "return"

C9_Step ==
    \A c \in Procs :
        /\ pc'[c] # pc[c] =>
               <<pc[c], pc'[c]>> \in {<<"Idle", "Built">>, <<"Built", "Sent">>,
                                      <<"Sent", "Decoded">>, <<"Decoded", "Errored">>,
                                      <<"Decoded", "Succeeded">>}
        /\ posts'[c] # posts[c] => pc[c] = "Built" /\ pc'[c] = "Sent"
        /\ pc[c] \in {"Decoded", "Errored", "Succeeded"} => posts'[c] = posts[c]

C9_OneRequestPerCall == [](C9_StateOrder) /\ [][C9_Step]_vars

C9_Witness ==
    \E c \in Procs :
        /\ pc[c] = "Errored"
        /\ IsPagedCall(c)
        /\ ~HasErrors(data[c])
        /\ PageMedia(c) = <<>>
        /\ Len(posts[c]) = 1

\* C10: session and _lib keep their values in every step; a step of one
\* call leaves the state of every other call alone; the body a call builds
\* is decided by its own method and arguments and its outcome by those and
\* its own response.
Local(c) == <<pc[c], method[c], args[c], body[c], posts[c], awaits[c], data[c],
              outcome[c]>>

C10_Step ==
    /\ session' = session
    /\ _lib' = _lib
    /\ \A c, d \in Procs : (c # d /\ Local(c)' # Local(c)) => Local(d)' = Local(d)

C10_Independent ==
    \A c, d \in Procs :
        /\ (pc[c] # "Idle" /\ pc[d] # "Idle" /\ method[c] = method[d]
            /\ args[c] = args[d]) => body[c] = body[d]
        /\ (Done(c) /\ Done(d) /\ method[c] = method[d] /\ args[c] = args[d]
            /\ data[c] = data[d]) => outcome[c] = outcome[d]
        /\ \A i \in 1..Len(posts[c]) : posts[c][i].session = session

C10_ClientImmutable == [](C10_Independent) /\ [][C10_Step]_vars

C10_Witness ==
    \E c, d \in Procs :
        /\ c # d
        /\ pc[c] = "Errored"
        /\ pc[d] = "Succeeded"
        /\ method[c] = method[d]
        /\ args[c] = args[d]
        /\ data[c] # data[d]

====
